---- MODULE Spec2Model ----
(***************************************************************************)
(* State-machine model of mmagic/models/editors/singan/singan.py, class     *)
(* SinGAN: the staged training tick (train_step / train_gan), the snapshot  *)
(* load (load_test_pkl / test_step) and the inference call (forward).       *)
(*                                                                          *)
(* Tensors are abstracted to what the control logic reads of them: a real   *)
(* image is its scale index, a noise map is its kind and scale, generator   *)
(* parameters are a version number.  Every call to an external collaborator *)
(* (generator, discriminator, optimizer, scheduler, shadow model) made by a *)
(* handler is appended, in program order, to the event list of `last`.      *)
(***************************************************************************)
EXTENDS Integers, Sequences, FiniteSets, TLC

VARIABLES
    iters_per_scale,      \* self.iters_per_scale
    discriminator_steps,  \* self.discriminator_steps (BaseGAN)
    generator_steps,      \* self.generator_steps (BaseGAN)
    with_ema_gen,         \* self.with_ema_gen (BaseGAN, from ema_confg)
    ema_start,            \* self.ema_start (BaseGAN, from ema_confg)
    lr_scheduler_args,    \* TRUE iff a learning-rate schedule is configured
    num_scales,           \* self.num_scales (None or an integer)
    pkl_data,             \* TRUE iff self.pkl_data is not None
    curr_stage,           \* self.curr_stage
    noise_weights,        \* self.noise_weights
    fixed_noises,         \* self.fixed_noises
    reals,                \* self.reals
    loaded_test_pkl,      \* self.loaded_test_pkl
    gen_params,           \* parameters of self.generator (a version number)
    ema_params,           \* parameters of self.generator_ema
    disc_requires_grad,   \* requires_grad of the discriminator's parameters
    gen_scheduler,        \* self.gen_scheduler
    disc_scheduler,       \* self.disc_scheduler
    optim_wrapper,        \* the OptimWrapperDict the runner hands to train_step
    batch,                \* the batch the dataloader yields (the same every tick)
    iter,                 \* MessageHub info 'iter': the index of the next tick
    running,              \* TRUE while no tick of the training run has raised
    window,               \* tally of the ticks of the stage window in progress
    last                  \* what the last handler call did

vars == <<iters_per_scale, discriminator_steps, generator_steps, with_ema_gen,
          ema_start, lr_scheduler_args, num_scales, pkl_data, curr_stage,
          noise_weights, fixed_noises, reals, loaded_test_pkl, gen_params,
          ema_params, disc_requires_grad, gen_scheduler, disc_scheduler,
          optim_wrapper, batch, iter, running, window, last>>

cfgvars == <<iters_per_scale, discriminator_steps, generator_steps,
             with_ema_gen, ema_start, lr_scheduler_args, num_scales, pkl_data,
             optim_wrapper, batch>>

(***************************************************************************)
(* Bounds of the model.                                                     *)
(***************************************************************************)
MaxItersPerScale == 2   \* iters_per_scale ranges over 1..MaxItersPerScale
MaxDiscSteps == 2       \* discriminator_steps ranges over 1..MaxDiscSteps
MaxGenSteps == 2        \* generator_steps ranges over 1..MaxGenSteps
MaxEmaStart == 2        \* ema_start ranges over 0..MaxEmaStart
MaxScales == 3          \* a batch carries 1..MaxScales real images
MaxAccum == 2           \* _accumulative_counts ranges over 1..MaxAccum
MaxOptimStages == 2     \* optimizers exist for stages 0..n-1, n <= this
MaxIter == 8            \* a training run has the ticks 0..MaxIter
MaxOverride == 1        \* a curr_scale override ranges over 0..MaxOverride
ParamMod == 3           \* parameter versions are counted modulo this

None == 0 - 2           \* Python's None where an integer is expected

RmseValues == {0, 1}    \* a reconstruction RMSE is zero or positive

(***************************************************************************)
(* Python list indexing seq[k], k counted from zero, a negative k counted   *)
(* from the end: InRange tells whether it returns or raises IndexError.     *)
(***************************************************************************)
InRangeClamped(seq, k) == Len(seq) > 0

InRange(seq, k) == (0 - Len(seq)) <= k /\ k < Len(seq)

(***************************************************************************)
(* The handler state threaded through one call: the mutable attributes,     *)
(* the events emitted so far and the exception raised, if any.              *)
(***************************************************************************)
Ev(op, s, g) == [op |-> op, stage |-> s, grad |-> g]

Emit(st, op) ==
    [st EXCEPT !.events = Append(@, Ev(op, st.curr_stage, st.disc_requires_grad))]

Raise(st, e) == [st EXCEPT !.err = e]

Count(events, op) == Cardinality({k \in 1..Len(events) : events[k].op = op})

Entry ==
    [curr_stage |-> curr_stage, noise_weights |-> noise_weights,
     fixed_noises |-> fixed_noises, reals |-> reals,
     loaded_test_pkl |-> loaded_test_pkl,
     gen_params |-> gen_params, ema_params |-> ema_params,
     disc_requires_grad |-> disc_requires_grad,
     gen_scheduler |-> gen_scheduler, disc_scheduler |-> disc_scheduler,
     events |-> <<>>, err |-> "none"]

NoScheduler == [stage |-> None, last_epoch |-> None]

(***************************************************************************)
(* The tally kept of a stage window: the number of ticks, of discriminator  *)
(* rounds, of ticks with generator rounds, of generator rounds and of       *)
(* scheduler steps since the last stage-boundary tick, and the stages the   *)
(* rounds ran on.                                                           *)
(***************************************************************************)
EmptyWindow ==
    [ticks |-> 0, disc_rounds |-> 0, gen_ticks |-> 0, gen_rounds |-> 0,
     scheduler_steps |-> 0, stages |-> {}]

Tally(w, events) ==
    [ticks |-> w.ticks + 1,
     disc_rounds |-> w.disc_rounds + Count(events, "disc_round"),
     gen_ticks |-> w.gen_ticks
                       + (IF Count(events, "gen_round") > 0 THEN 1 ELSE 0),
     gen_rounds |-> w.gen_rounds + Count(events, "gen_round"),
     scheduler_steps |-> w.scheduler_steps + Count(events, "gen_scheduler_step"),
     stages |-> w.stages \cup
                    {events[k].stage : k \in {j \in 1..Len(events) :
                        events[j].op \in {"disc_round", "gen_round"}}}]

(***************************************************************************)
(* train_step, lines 543-638.  `i` is the tick index read from MessageHub, *)
(* `data` the batch (its number of real_scale<N> keys) and `optim` the      *)
(* OptimWrapperDict: keys generator_<s> and discriminator_<s> for the       *)
(* stages s in 0..stages-1.  The wrappers of the stages below accum_from    *)
(* have _accumulative_counts 1, those from accum_from on have the counts    *)
(* gen_accum and disc_accum.                                                *)
(***************************************************************************)
Window == iters_per_scale * discriminator_steps

HasOptim(optim, s) == 0 <= s /\ s < optim.stages

NewSchedulerPreviousStage(s) == [stage |-> s - 1, last_epoch |-> 0]

NewScheduler(s) == [stage |-> s, last_epoch |-> 0]

IsStageBoundaryLate(i) == (i + 1) % Window = 0

IsStageBoundaryFirstOnly(i) == i = 0

IsStageBoundary(i) == i % Window = 0

NextStageSkip(s) == s + 2

NextStage(s) == s + 1

GenAccum(optim, s) == IF s >= optim.accum_from THEN optim.gen_accum ELSE 1

DiscAccum(optim, s) == IF s >= optim.accum_from THEN optim.disc_accum ELSE 1

AccumulationOkGeneratorOnly(optim, s) == GenAccum(optim, s) = 1

AccumulationOk(optim, s) == GenAccum(optim, s) = 1 /\ DiscAccum(optim, s) = 1

StageTransition(st, i, optim) ==
    IF ~IsStageBoundary(i) THEN st
    ELSE LET s1 == [st EXCEPT !.curr_stage = NextStage(@)]
             s2 == Emit(Emit(s1, "gen_load_prev_weight"), "disc_load_prev_weight")
         IN  IF ~HasOptim(optim, s2.curr_stage) THEN Raise(s2, "KeyError")
             ELSE IF ~AccumulationOk(optim, s2.curr_stage)
                  THEN Raise(s2, "AssertionError")
             ELSE IF lr_scheduler_args
                  THEN Emit([s2 EXCEPT !.gen_scheduler = NewScheduler(s2.curr_stage),
                                       !.disc_scheduler = NewScheduler(s2.curr_stage)],
                            "new_schedulers")
             ELSE s2

CurrOptimizerWrapper(st, optim) ==
    IF st.err # "none" THEN st
    ELSE IF ~HasOptim(optim, st.curr_stage) THEN Raise(st, "KeyError")
    ELSE st

CurrWrapperDictFirstStage(optim, s) ==
    [stage |-> 0, gen_accum |-> GenAccum(optim, 0),
     disc_accum |-> DiscAccum(optim, 0)]

CurrWrapperDict(optim, s) ==
    [stage |-> s, gen_accum |-> GenAccum(optim, s),
     disc_accum |-> DiscAccum(optim, s)]

update_params(st, op, w) ==
    [st EXCEPT !.events = Append(@, Ev(op, w.stage, st.disc_requires_grad))]

FixedNoise(k, real) == [kind |-> IF k = 0 THEN "randn" ELSE "zeros", scale |-> real]

construct_fixed_noises(st) ==
    Emit([st EXCEPT !.fixed_noises =
              @ \o [k \in 1..Len(st.reals) |-> FixedNoise(k - 1, st.reals[k])]],
         "construct_fixed_noises")

SetupPyramidEveryTick(st, i, data) ==
    IF st.err # "none" THEN st
    ELSE construct_fixed_noises(
             Emit([st EXCEPT !.reals = [k \in 1..data.scales |-> k - 1]],
                  "set_reals"))

SetupPyramidOnlyWhenEmpty(st, i, data) ==
    IF st.err # "none" THEN st
    ELSE IF Len(st.reals) = 0
         THEN construct_fixed_noises(
                  Emit([st EXCEPT !.reals = [k \in 1..data.scales |-> k - 1]],
                       "set_reals"))
    ELSE st

SetupPyramid(st, i, data) ==
    IF st.err # "none" THEN st
    ELSE IF i = 0 \/ Len(st.reals) = 0
         THEN construct_fixed_noises(
                  Emit([st EXCEPT !.reals = [k \in 1..data.scales |-> k - 1]],
                       "set_reals"))
    ELSE st

train_discriminator(st, w) ==
    LET s1 == Emit(st, "generator_rand")
    IN  IF ~InRange(s1.reals, s1.curr_stage) THEN Raise(s1, "IndexError")
        ELSE Emit(update_params(s1, "disc_update_params", w), "disc_round")

train_generator(st, w) ==
    LET s1 == Emit(Emit(st, "generator_rand"), "generator_recon")
    IN  IF ~InRange(s1.reals, s1.curr_stage) THEN Raise(s1, "IndexError")
        ELSE Emit([update_params(s1, "gen_update_params", w)
                      EXCEPT !.gen_params = (@ + 1) % ParamMod], "gen_round")

RECURSIVE GenRounds(_, _, _)
GenRounds(st, k, w) ==
    IF k = 0 \/ st.err # "none" THEN st
    ELSE GenRounds(train_generator(st, w), k - 1, w)

update_parameters(shadow, source) == (shadow + source) \div 2

sync_parameters(shadow, source) == source

EmaReachedLate(i, optim) ==
    i >= ema_start * discriminator_steps * optim.disc_accum

EmaReached(i, optim) ==
    (i + 1) >= ema_start * discriminator_steps * optim.disc_accum

EmaStep(st, i, optim) ==
    IF st.err # "none" THEN st
    ELSE IF with_ema_gen /\ EmaReached(i, optim)
         THEN Emit([st EXCEPT !.ema_params = update_parameters(@, st.gen_params)],
                   "ema_update_parameters")
    ELSE IF with_ema_gen
         THEN Emit([st EXCEPT !.ema_params = sync_parameters(@, st.gen_params)],
                   "ema_sync_parameters")
    ELSE st

ShouldGenUpdateAtWindowStart(i, optim) ==
    i % (discriminator_steps * optim.disc_accum) = 0

ShouldGenUpdateEveryTick(i, optim) == (i + 1) % optim.disc_accum = 0

ShouldGenUpdate(i, optim) ==
    (i + 1) % (discriminator_steps * optim.disc_accum) = 0

set_requires_grad(st, flag) ==
    IF st.err # "none" THEN st ELSE [st EXCEPT !.disc_requires_grad = flag]

NumGenRounds(optim) == generator_steps * optim.gen_accum

train_gan_EmaEveryTick(st, i, optim) ==
    IF st.err # "none" THEN st
    ELSE LET s1 == train_discriminator(st, optim)
         IN  IF s1.err # "none" THEN s1
             ELSE IF ~ShouldGenUpdate(i, optim) THEN EmaStep(s1, i, optim)
             ELSE LET s2 == set_requires_grad(s1, FALSE)
                      s3 == GenRounds(s2, NumGenRounds(optim), optim)
                      s4 == set_requires_grad(s3, TRUE)
                  IN  EmaStep(s4, i, optim)

train_gan_NoUnfreeze(st, i, optim) ==
    IF st.err # "none" THEN st
    ELSE LET s1 == train_discriminator(st, optim)
         IN  IF s1.err # "none" \/ ~ShouldGenUpdate(i, optim) THEN s1
             ELSE LET s2 == set_requires_grad(s1, FALSE)
                      s3 == GenRounds(s2, NumGenRounds(optim), optim)
                  IN  EmaStep(s3, i, optim)

RECURSIVE GenRoundsWithEma(_, _, _, _)
GenRoundsWithEma(st, k, w, i) ==
    IF k = 0 \/ st.err # "none" THEN st
    ELSE GenRoundsWithEma(EmaStep(train_generator(st, w), i, w), k - 1, w, i)

train_gan_EmaPerRound(st, i, optim) ==
    IF st.err # "none" THEN st
    ELSE LET s1 == train_discriminator(st, optim)
         IN  IF s1.err # "none" \/ ~ShouldGenUpdate(i, optim) THEN s1
             ELSE LET s2 == set_requires_grad(s1, FALSE)
                      s3 == GenRoundsWithEma(s2, NumGenRounds(optim), optim, i)
                  IN  set_requires_grad(s3, TRUE)

train_gan(st, i, optim) ==
    IF st.err # "none" THEN st
    ELSE LET s1 == train_discriminator(st, optim)
         IN  IF s1.err # "none" \/ ~ShouldGenUpdate(i, optim) THEN s1
             ELSE LET s2 == set_requires_grad(s1, FALSE)
                      s3 == GenRounds(s2, NumGenRounds(optim), optim)
                      s4 == set_requires_grad(s3, TRUE)
                  IN  EmaStep(s4, i, optim)

ShouldCalibrateEveryWindow(st, i) == (i + 1) % Window = 0

ShouldCalibrateEveryTick(st, i) == st.curr_stage < Len(st.reals) - 1

ShouldCalibrateAtStart(st, i) ==
    i % Window = 0 /\ st.curr_stage < Len(st.reals) - 1

ShouldCalibrate(st, i) ==
    (i + 1) % Window = 0 /\ st.curr_stage < Len(st.reals) - 1

noise_weight_init == 1

UpdateNoiseWeight(st, i, rmse) ==
    IF st.err # "none" \/ ~ShouldCalibrate(st, i) THEN st
    ELSE LET s1 == Emit(st, "generator_recon")
         IN  IF ~InRange(s1.reals, s1.curr_stage + 1) THEN Raise(s1, "IndexError")
             ELSE Emit([s1 EXCEPT !.noise_weights =
                                      Append(@, noise_weight_init * rmse)],
                       "append_noise_weight")

SchedulerStepEveryTick(st, i) ==
    IF st.err # "none" THEN st
    ELSE IF lr_scheduler_args
         THEN IF st.disc_scheduler = NoScheduler THEN Raise(st, "AttributeError")
              ELSE Emit(Emit([st EXCEPT !.disc_scheduler.last_epoch = @ + 1,
                                        !.gen_scheduler.last_epoch = @ + 1],
                             "disc_scheduler_step"), "gen_scheduler_step")
    ELSE st

SchedulerStep(st, i) ==
    IF st.err # "none" THEN st
    ELSE IF (i + 1) % discriminator_steps = 0 /\ lr_scheduler_args
         THEN IF st.disc_scheduler = NoScheduler THEN Raise(st, "AttributeError")
              ELSE Emit(Emit([st EXCEPT !.disc_scheduler.last_epoch = @ + 1,
                                        !.gen_scheduler.last_epoch = @ + 1],
                             "disc_scheduler_step"), "gen_scheduler_step")
    ELSE st

BeforeCalibration(st, i, data, optim) ==
    LET s1 == SetupPyramid(CurrOptimizerWrapper(StageTransition(st, i, optim),
                                                optim), i, data)
    IN  train_gan(s1, i, CurrWrapperDict(optim, s1.curr_stage))

train_step_SchedulerBeforeCalibration(st, i, data, optim, rmse) ==
    UpdateNoiseWeight(SchedulerStep(BeforeCalibration(st, i, data, optim), i),
                      i, rmse)

train_step(st, i, data, optim, rmse) ==
    SchedulerStep(UpdateNoiseWeight(BeforeCalibration(st, i, data, optim),
                                    i, rmse), i)

(***************************************************************************)
(* load_test_pkl (lines 111-121), forward (lines 173-321) and test_step     *)
(* (lines 640-654).  `inputs` is the dict handed to forward, a key that is  *)
(* left out is None; `snap` is the content of the pickle file.              *)
(***************************************************************************)
load_test_pkl_FlagNotSet(st, snap) ==
    IF pkl_data
    THEN Emit([st EXCEPT !.fixed_noises = snap.fixed_noises,
                         !.noise_weights = snap.noise_weights,
                         !.curr_stage = snap.curr_stage], "read_pkl")
    ELSE st

load_test_pkl(st, snap) ==
    IF pkl_data
    THEN Emit([st EXCEPT !.fixed_noises = snap.fixed_noises,
                         !.noise_weights = snap.noise_weights,
                         !.curr_stage = snap.curr_stage,
                         !.loaded_test_pkl = TRUE], "read_pkl")
    ELSE st

SampleModels == {"ema", "ema/orig", "orig"}

DefaultSampleModel == IF with_ema_gen THEN "ema" ELSE "orig"

get_valid_model(inputs) ==
    IF inputs.sample_model = "None" THEN DefaultSampleModel ELSE inputs.sample_model

ValidModel(m) == m \in SampleModels /\ (m \in {"ema", "ema/orig"} => with_ema_gen)

Generate(st, sample_model, curr_scale) ==
    LET orig == [st EXCEPT !.events =
                     Append(@, Ev("generator_orig", curr_scale, st.disc_requires_grad))]
        ema(s) == [s EXCEPT !.events =
                     Append(@, Ev("generator_ema", curr_scale, st.disc_requires_grad))]
    IN  IF sample_model = "ema" THEN ema(st)
        ELSE IF sample_model = "orig" THEN orig
        ELSE ema(orig)

NumBatches(inputs) == IF inputs.num_batches = None THEN 1 ELSE inputs.num_batches

BatchOkAtLeastOne(num_batches) == num_batches >= 1

BatchOk(num_batches) == num_batches = 1

forward_OverrideKept(st, inputs) ==
    LET num_batches == NumBatches(inputs)
        sample_model == get_valid_model(inputs)
        curr_scale == IF inputs.curr_scale = None THEN st.curr_stage
                      ELSE inputs.curr_scale
    IN  IF st.err # "none" THEN st
        ELSE IF ~BatchOk(num_batches) THEN Raise(st, "AssertionError")
        ELSE IF ~ValidModel(sample_model) THEN Raise(st, "AssertionError")
        ELSE Generate([st EXCEPT !.fixed_noises = [k \in 1..Len(@) |-> @[k]],
                                 !.curr_stage = curr_scale],
                      sample_model, curr_scale)

forward(st, inputs) ==
    LET num_batches == NumBatches(inputs)
        sample_model == get_valid_model(inputs)
        curr_scale == IF inputs.curr_scale = None THEN st.curr_stage
                      ELSE inputs.curr_scale
    IN  IF st.err # "none" THEN st
        ELSE IF ~BatchOk(num_batches) THEN Raise(st, "AssertionError")
        ELSE IF ~ValidModel(sample_model) THEN Raise(st, "AssertionError")
        ELSE Generate([st EXCEPT !.fixed_noises = [k \in 1..Len(@) |-> @[k]]],
                      sample_model, curr_scale)

NeedsLoadAlways(st) == TRUE

NeedsLoad(st) == ~st.loaded_test_pkl

test_step(st, inputs, snap) ==
    forward(IF NeedsLoad(st) THEN load_test_pkl(st, snap) ELSE st, inputs)

(***************************************************************************)
(* Inputs.                                                                  *)
(***************************************************************************)
Batches ==
    {[scales |-> k] : k \in {n \in 1..MaxScales : num_scales \in {None, n - 1}}}

NoAccumulation(o) == o.gen_accum = 1 /\ o.disc_accum = 1 /\ o.accum_from = 0

OptimDicts ==
    {o \in [stages : 0..MaxOptimStages, gen_accum : 1..MaxAccum,
            disc_accum : 1..MaxAccum, accum_from : 0..MaxOptimStages] :
        \/ NoAccumulation(o)
        \/ /\ o.gen_accum * o.disc_accum > 1
           /\ o.accum_from < o.stages}

ForwardInputs ==
    {inputs \in [num_batches : {None, 1, 2},
                 sample_model : {"None", "orig", "ema", "ema/orig", "other"},
                 curr_scale : {None} \cup 0..MaxOverride] :
        (inputs.num_batches # None \/ inputs.sample_model = "other")
            => (inputs.sample_model \in {"None", "other"}
                /\ inputs.curr_scale = None)}

Snapshot(k) ==
    [fixed_noises |-> [j \in 1..k |-> FixedNoise(j - 1, j - 1)],
     noise_weights |-> [j \in 1..k |-> IF j = 1 THEN 1 ELSE 0],
     curr_stage |-> k - 1]

Snapshots == {Snapshot(k) : k \in 1..MaxScales}

NoInputs == [num_batches |-> None, sample_model |-> "None", curr_scale |-> None]

NoSnapshot == Snapshot(0)

(***************************************************************************)
(* The state machine.  Fresh is the state __init__ leaves (lines 91-109).   *)
(***************************************************************************)
Fresh ==
    /\ curr_stage = 0 - 1
    /\ noise_weights = <<1>>
    /\ fixed_noises = <<>>
    /\ reals = <<>>
    /\ loaded_test_pkl = FALSE
    /\ gen_params = 0
    /\ ema_params = 0
    /\ disc_requires_grad = TRUE
    /\ gen_scheduler = NoScheduler
    /\ disc_scheduler = NoScheduler
    /\ iter = 0
    /\ running = TRUE
    /\ window = EmptyWindow
    /\ last = [op |-> "init", i |-> 0 - 1, inputs |-> NoInputs,
               snap |-> NoSnapshot, err |-> "none", events |-> <<>>]

Init ==
    /\ iters_per_scale \in 1..MaxItersPerScale
    /\ discriminator_steps \in 1..MaxDiscSteps
    /\ generator_steps \in 1..MaxGenSteps
    /\ with_ema_gen \in BOOLEAN
    /\ ema_start \in IF with_ema_gen THEN 0..MaxEmaStart ELSE {0}
    /\ lr_scheduler_args \in BOOLEAN
    /\ num_scales \in {None} \cup 0..(MaxScales - 1)
    /\ pkl_data = FALSE
    /\ optim_wrapper \in OptimDicts
    /\ batch \in Batches
    /\ Fresh

Commit(st) ==
    /\ curr_stage' = st.curr_stage
    /\ noise_weights' = st.noise_weights
    /\ fixed_noises' = st.fixed_noises
    /\ reals' = st.reals
    /\ loaded_test_pkl' = st.loaded_test_pkl
    /\ gen_params' = st.gen_params
    /\ ema_params' = st.ema_params
    /\ disc_requires_grad' = st.disc_requires_grad
    /\ gen_scheduler' = st.gen_scheduler
    /\ disc_scheduler' = st.disc_scheduler
    /\ UNCHANGED cfgvars

TrainStep ==
    LET s0 == BeforeCalibration(Entry, iter, batch, optim_wrapper)
        rmses == IF s0.err = "none" /\ ShouldCalibrate(s0, iter)
                 THEN RmseValues ELSE {0}
    IN  /\ running
        /\ iter <= MaxIter
        /\ \E rmse \in rmses :
               LET st == train_step(Entry, iter, batch, optim_wrapper, rmse)
               IN  /\ Commit(st)
                   /\ iter' = IF st.err = "none" THEN iter + 1 ELSE iter
                   /\ running' = (st.err = "none")
                   /\ window' = Tally(IF iter % Window = 0 THEN EmptyWindow
                                      ELSE window, st.events)
                   /\ last' = [op |-> "train_step", i |-> iter,
                               inputs |-> NoInputs, snap |-> NoSnapshot,
                               err |-> st.err, events |-> st.events]

Forward(inputs) ==
    LET st == forward(Entry, inputs)
    IN  /\ Commit(st)
        /\ UNCHANGED <<iter, running, window>>
        /\ last' = [op |-> "forward", i |-> 0 - 1, inputs |-> inputs,
                    snap |-> NoSnapshot, err |-> st.err, events |-> st.events]

TestStep(inputs, snap) ==
    LET st == test_step(Entry, inputs, snap)
    IN  /\ Commit(st)
        /\ UNCHANGED <<iter, running, window>>
        /\ last' = [op |-> "test_step", i |-> 0 - 1, inputs |-> inputs,
                    snap |-> IF Count(st.events, "read_pkl") > 0 THEN snap
                             ELSE NoSnapshot,
                    err |-> st.err, events |-> st.events]

Next == TrainStep

Spec == Init /\ [][Next]_vars

(***************************************************************************)
(* The process with inference: training ticks, forward and test_step calls  *)
(* in any order.  Inference reads none of the step counts and schedules,    *)
(* which are fixed here.                                                    *)
(***************************************************************************)
InitInfer ==
    /\ iters_per_scale = 1
    /\ discriminator_steps \in 1..MaxDiscSteps
    /\ generator_steps = 1
    /\ with_ema_gen \in BOOLEAN
    /\ ema_start = IF with_ema_gen THEN 1 ELSE 0
    /\ lr_scheduler_args = FALSE
    /\ num_scales = None
    /\ pkl_data \in BOOLEAN
    /\ optim_wrapper \in {o \in OptimDicts : o.stages = MaxOptimStages
                                             /\ NoAccumulation(o)}
    /\ batch \in Batches
    /\ Fresh

NextInfer ==
    \/ TrainStep
    \/ \E inputs \in ForwardInputs : Forward(inputs)
    \/ \E inputs \in ForwardInputs :
           \E snap \in IF NeedsLoad(Entry) /\ pkl_data THEN Snapshots
                       ELSE {NoSnapshot} : TestStep(inputs, snap)

SpecInfer == InitInfer /\ [][NextInfer]_vars

(***************************************************************************)
(* Training whose tick counter is set from outside: train_step reads the    *)
(* tick index from MessageHub (line 565), which a runner that is started    *)
(* again, or resumed, on the same model object sets to the first tick of a  *)
(* scale (0 or a multiple of the window).  The pyramid setup reads none of  *)
(* the generator-round and shadow-model settings, which are fixed here.     *)
(***************************************************************************)
InitRerun ==
    /\ iters_per_scale \in 1..MaxItersPerScale
    /\ discriminator_steps \in 1..MaxDiscSteps
    /\ generator_steps = 1
    /\ with_ema_gen = FALSE
    /\ ema_start = 0
    /\ lr_scheduler_args \in BOOLEAN
    /\ num_scales = None
    /\ pkl_data = FALSE
    /\ optim_wrapper \in {o \in OptimDicts : NoAccumulation(o)}
    /\ batch \in Batches
    /\ Fresh

Restart(i) ==
    /\ running
    /\ i # iter
    /\ IsStageBoundary(i)
    /\ iter' = i
    /\ last' = [op |-> "restart", i |-> i, inputs |-> NoInputs,
                snap |-> NoSnapshot, err |-> "none", events |-> <<>>]
    /\ UNCHANGED <<cfgvars, curr_stage, noise_weights, fixed_noises, reals,
                   loaded_test_pkl, gen_params, ema_params, disc_requires_grad,
                   gen_scheduler, disc_scheduler, running, window>>

NextRerun ==
    \/ TrainStep
    \/ \E i \in 0..MaxIter : Restart(i)

SpecRerun == InitRerun /\ [][NextRerun]_vars

(***************************************************************************)
(* Reading the event list of the last call.                                 *)
(***************************************************************************)
CountAt(events, op, s) ==
    Cardinality({k \in 1..Len(events) : events[k].op = op /\ events[k].stage = s})

IsRound(e) == e.op \in {"disc_round", "gen_round"}

Rounds(events) == SelectSeq(events, IsRound)

RoundOps(events) == [k \in 1..Len(Rounds(events)) |-> Rounds(events)[k].op]

Ticked == last.op = "train_step"

(***************************************************************************)
(* C1.  Original statement: across train_step ticks and inference calls,    *)
(* the snapshot load of test_step included, curr_stage never decreases and  *)
(* every change of it is an increase by exactly 1.                          *)
(***************************************************************************)
C1_StageNeverSkipsOrRewinds ==
    [][curr_stage' = curr_stage \/ curr_stage' = curr_stage + 1]_vars

(***************************************************************************)
(* C1, amended.  A train_step tick leaves curr_stage alone or raises it by  *)
(* exactly 1 and a forward call leaves it alone; a test_step call leaves it *)
(* alone unless it reads the snapshot, and then curr_stage becomes the      *)
(* snapshot's curr_stage, whatever the stage was before.                    *)
(***************************************************************************)
C1_StageStepsExceptSnapshotLoad ==
    [][/\ last'.op = "train_step"
           => curr_stage' \in {curr_stage, curr_stage + 1}
       /\ last'.op = "forward" => curr_stage' = curr_stage
       /\ last'.op = "test_step"
           => IF Count(last'.events, "read_pkl") > 0
              THEN curr_stage' = last'.snap.curr_stage
              ELSE curr_stage' = curr_stage]_vars

C1_Witness ==
    /\ Ticked /\ last.err = "none"
    /\ curr_stage = 1
    /\ IsStageBoundary(last.i)

(***************************************************************************)
(* C2.  Original statement: once the real pyramid is set, the stage in      *)
(* force during tick i equals floor(i / window) clipped to                  *)
(* [-1, len(reals) - 1].                                                    *)
(***************************************************************************)
Clip(x, lo, hi) == IF x < lo THEN lo ELSE IF x > hi THEN hi ELSE x

C2_StageIsClippedQuotient ==
    (Ticked /\ Len(reals) > 0)
        => curr_stage = Clip(last.i \div Window, 0 - 1, Len(reals) - 1)

(***************************************************************************)
(* C2, amended.  For the consecutive ticks 0, 1, 2, ... of a training run   *)
(* the stage in force during tick i equals floor(i / window), unclipped: on *)
(* every tick that completes it lies in 0 .. len(reals) - 1, and the tick   *)
(* i = window * len(reals) raises curr_stage to len(reals) and fails.       *)
(***************************************************************************)
C2_StageIsQuotient ==
    Ticked =>
        /\ curr_stage = last.i \div Window
        /\ last.err = "none" => (0 <= curr_stage /\ curr_stage < Len(reals))
        /\ (Len(reals) > 0 /\ last.i >= Window * Len(reals)) => last.err # "none"

C2_Witness ==
    /\ Ticked /\ last.err = "none"
    /\ curr_stage = 1
    /\ last.i > Window

(***************************************************************************)
(* C3.  In train_step with tick index i a stage transition (curr_stage + 1, *)
(* weight carry-over of generator and discriminator for the new stage)      *)
(* fires iff i mod window = 0; on every other tick curr_stage is unchanged  *)
(* and no carry-over is requested.  Tick 0 moves the stage from -1 to 0.    *)
(***************************************************************************)
C3_TransitionIffBoundary ==
    [][last'.op = "train_step" =>
         LET i == last'.i
             e == last'.events
         IN  /\ i % (iters_per_scale * discriminator_steps) = 0
                 => /\ curr_stage' = curr_stage + 1
                    /\ CountAt(e, "gen_load_prev_weight", curr_stage + 1) = 1
                    /\ CountAt(e, "disc_load_prev_weight", curr_stage + 1) = 1
                    /\ Count(e, "gen_load_prev_weight") = 1
                    /\ Count(e, "disc_load_prev_weight") = 1
             /\ i % (iters_per_scale * discriminator_steps) # 0
                 => /\ curr_stage' = curr_stage
                    /\ Count(e, "gen_load_prev_weight") = 0
                    /\ Count(e, "disc_load_prev_weight") = 0
             /\ i = 0 => (curr_stage = 0 - 1 /\ curr_stage' = 0)]_vars

C3_Witness ==
    /\ Ticked /\ last.err = "none"
    /\ last.i > 0
    /\ last.i % (iters_per_scale * discriminator_steps) = 0
    /\ Count(last.events, "gen_load_prev_weight") = 1

C5_RoundsPerTick ==
    Ticked =>
        LET r == RoundOps(last.events)
            k == IF (last.i + 1) % (discriminator_steps
                                        * DiscAccum(optim_wrapper, curr_stage)) = 0
                 THEN generator_steps * GenAccum(optim_wrapper, curr_stage)
                 ELSE 0
        IN  /\ last.err = "none" => r = <<"disc_round">> \o [j \in 1..k |-> "gen_round"]
            /\ Count(last.events, "disc_round") <= 1
            /\ Len(r) > 0 => r[1] = "disc_round"

C5_Witness ==
    /\ Ticked /\ last.err = "none"
    /\ discriminator_steps = 2 /\ generator_steps = 2
    /\ RoundOps(last.events) = <<"disc_round", "gen_round", "gen_round">>

(***************************************************************************)
(* C6.  train_step appends to noise_weights only on a tick with             *)
(* (i+1) mod window = 0 whose stage is not the final scale, and then        *)
(* exactly one element; on every other tick, and on a tick that raises      *)
(* before it reaches the calibration, noise_weights is unchanged; existing  *)
(* elements are never modified or removed by training, and the first        *)
(* element is the seed 1.                                                   *)
(***************************************************************************)
C6_AppendOnlyAtWindowEnd ==
    [][last'.op = "train_step" =>
         /\ IF /\ last'.err = "none"
               /\ (last'.i + 1) % (iters_per_scale * discriminator_steps) = 0
               /\ curr_stage' < Len(reals') - 1
            THEN /\ Len(noise_weights') = Len(noise_weights) + 1
                 /\ SubSeq(noise_weights', 1, Len(noise_weights)) = noise_weights
            ELSE noise_weights' = noise_weights
         /\ noise_weights'[1] = 1]_vars

C6_Witness ==
    /\ Ticked /\ last.err = "none"
    /\ Count(last.events, "append_noise_weight") = 1
    /\ Len(noise_weights) = 2
    /\ last.i > 0

(***************************************************************************)
(* C7.  On a tick with EMA enabled in which generator rounds ran, exactly   *)
(* one shadow operation happens: update_parameters if                       *)
(* i+1 >= ema_start * discriminator_steps * disc_accum, else                *)
(* sync_parameters, after which the shadow equals the live generator.       *)
(* With EMA disabled neither operation is invoked.                          *)
(***************************************************************************)
C7_EmaUpdateOrSync ==
    (Ticked /\ last.err = "none") =>
        LET e == last.events
            u == Count(e, "ema_update_parameters")
            y == Count(e, "ema_sync_parameters")
            reached == (last.i + 1) >=
                           ema_start * discriminator_steps
                               * DiscAccum(optim_wrapper, curr_stage)
        IN  /\ (with_ema_gen /\ Count(e, "gen_round") > 0)
                => IF reached THEN u = 1 /\ y = 0
                   ELSE u = 0 /\ y = 1 /\ ema_params = gen_params
            /\ ~with_ema_gen => (u = 0 /\ y = 0)

C7_Witness ==
    /\ Ticked /\ last.err = "none" /\ with_ema_gen
    /\ Count(last.events, "ema_sync_parameters") = 1
    /\ ema_params = gen_params /\ gen_params # 0

(***************************************************************************)
(* C8.  The shadow model is written at most once per tick and only on a     *)
(* tick in which a generator round occurred; on a tick whose generator gate *)
(* (i+1) mod (discriminator_steps * disc_accum) = 0 is false it is left     *)
(* unchanged; forward and test_step never write it.                         *)
(***************************************************************************)
EmaWrites(e) == Count(e, "ema_update_parameters") + Count(e, "ema_sync_parameters")

C8_ShadowWrittenOnlyAfterGeneratorRound ==
    [][/\ last'.op = "train_step" =>
            /\ EmaWrites(last'.events) <= 1
            /\ EmaWrites(last'.events) = 1 => Count(last'.events, "gen_round") > 0
            /\ (last'.i + 1) % (discriminator_steps
                                    * DiscAccum(optim_wrapper, curr_stage')) # 0
                   => EmaWrites(last'.events) = 0
            /\ EmaWrites(last'.events) = 0 => ema_params' = ema_params
       /\ last'.op # "train_step" =>
            (EmaWrites(last'.events) = 0 /\ ema_params' = ema_params)]_vars

C8_Witness ==
    /\ Ticked /\ last.err = "none" /\ with_ema_gen
    /\ (last.i + 1) % (discriminator_steps * DiscAccum(optim_wrapper, curr_stage)) # 0
    /\ EmaWrites(last.events) = 0
    /\ ema_params # gen_params

GeneratorCalls(e) == Count(e, "generator_orig") + Count(e, "generator_ema")

C10_BatchSizeMustBeOne ==
    [][last'.op = "forward" =>
         LET nb == last'.inputs.num_batches
             m == IF last'.inputs.sample_model = "None"
                  THEN (IF with_ema_gen THEN "ema" ELSE "orig")
                  ELSE last'.inputs.sample_model
         IN  /\ nb \notin {None, 1}
                 => /\ last'.err = "AssertionError"
                    /\ GeneratorCalls(last'.events) = 0
                    /\ UNCHANGED <<curr_stage, noise_weights, fixed_noises,
                                   loaded_test_pkl>>
             /\ (nb \in {None, 1} /\ m = "orig")
                 => (last'.err = "none" /\ GeneratorCalls(last'.events) = 1)]_vars

C10_Witness ==
    /\ last.op = "forward"
    /\ last.inputs.num_batches = 2
    /\ last.err = "AssertionError"
    /\ curr_stage >= 0

(***************************************************************************)
(* C11.  An inference call (forward or test_step) made while curr_stage is  *)
(* -1, no stage trained or loaded, ends in an error and invokes no          *)
(* generator with that stage.                                               *)
(***************************************************************************)
C11_InferenceBeforeTrainingFails ==
    (last.op \in {"forward", "test_step"} /\ curr_stage = 0 - 1)
        => /\ last.err # "none"
           /\ CountAt(last.events, "generator_orig", 0 - 1) = 0
           /\ CountAt(last.events, "generator_ema", 0 - 1) = 0

(***************************************************************************)
(* C12.  On a stage-boundary tick (i mod window = 0) whose new stage has    *)
(* optimizers of which one, the generator's or the discriminator's, has an  *)
(* accumulation count other than 1, train_step raises AssertionError, and   *)
(* it raises before any update round, any pyramid construction, any         *)
(* noise-weight append, any scheduler construction or step of that tick:    *)
(* the stage counter and the weight carry-over are the tick's only effects, *)
(* and the training run ends there.                                         *)
(***************************************************************************)
C12_AccumulationFailsAtBoundary ==
    [][(/\ last'.op = "train_step"
        /\ last'.i % (iters_per_scale * discriminator_steps) = 0
        /\ HasOptim(optim_wrapper, curr_stage + 1)
        /\ \/ GenAccum(optim_wrapper, curr_stage + 1) # 1
           \/ DiscAccum(optim_wrapper, curr_stage + 1) # 1)
       => /\ last'.err = "AssertionError"
          /\ \A k \in 1..Len(last'.events) :
                 last'.events[k].op \in {"gen_load_prev_weight",
                                         "disc_load_prev_weight"}
          /\ curr_stage' = curr_stage + 1
          /\ UNCHANGED <<reals, fixed_noises, noise_weights, gen_params,
                         ema_params, gen_scheduler, disc_scheduler,
                         disc_requires_grad>>
          /\ ~running']_vars

C12_Witness ==
    /\ Ticked /\ last.err = "AssertionError"
    /\ last.i > 0
    /\ curr_stage = 1
    /\ Len(noise_weights) = 2
    /\ DiscAccum(optim_wrapper, curr_stage) = 2
    /\ GenAccum(optim_wrapper, curr_stage) = 1

(***************************************************************************)
(* C13.  Within one train_step tick the steps occur in this order: the      *)
(* stage-transition check (carry-over, scheduler construction), then the    *)
(* discriminator update round, then the generator rounds and the shadow     *)
(* step, then the noise-weight calibration, then the scheduler steps; a     *)
(* tick that returns has performed the discriminator round.                 *)
(***************************************************************************)
Phase(op) ==
    CASE op \in {"gen_load_prev_weight", "disc_load_prev_weight",
                 "new_schedulers"} -> 0
      [] op \in {"disc_update_params", "disc_round"} -> 1
      [] op \in {"gen_update_params", "gen_round"} -> 2
      [] op \in {"ema_update_parameters", "ema_sync_parameters"} -> 3
      [] op = "append_noise_weight" -> 4
      [] op \in {"disc_scheduler_step", "gen_scheduler_step"} -> 5
      [] OTHER -> 0 - 1

C13_StepsInOrder ==
    Ticked =>
        LET e == last.events
        IN  /\ \A j, k \in 1..Len(e) :
                   (j < k /\ Phase(e[j].op) >= 0 /\ Phase(e[k].op) >= 0)
                       => Phase(e[j].op) <= Phase(e[k].op)
            /\ last.err = "none" => Count(e, "disc_round") = 1

C13_Witness ==
    /\ Ticked /\ last.err = "none" /\ last.i > 0
    /\ Count(last.events, "gen_load_prev_weight") = 1
    /\ Count(last.events, "new_schedulers") = 1
    /\ Count(last.events, "gen_round") = 2
    /\ Count(last.events, "ema_update_parameters") = 1
    /\ Count(last.events, "append_noise_weight") = 1
    /\ Count(last.events, "gen_scheduler_step") = 1

(***************************************************************************)
(* C14.  Immediately after each noise-weight append of a training run,      *)
(* len(noise_weights) = curr_stage + 2; and in every state of the run       *)
(* len(noise_weights) is at most the number of scales of the real pyramid   *)
(* (the number of real images of the batch, and len(reals) once set).       *)
(***************************************************************************)
C14_NoiseWeightsLength ==
    /\ (Ticked /\ Count(last.events, "append_noise_weight") > 0)
           => Len(noise_weights) = curr_stage + 2
    /\ Len(noise_weights) <= batch.scales
    /\ Len(reals) > 0 => Len(noise_weights) <= Len(reals)

C14_Witness ==
    /\ Ticked /\ last.err = "none"
    /\ Count(last.events, "append_noise_weight") = 1
    /\ curr_stage = 1
    /\ Len(noise_weights) = 3 /\ Len(reals) = 3

(***************************************************************************)
(* C15.  Over the ticks of a training run the fixed noise pyramid is        *)
(* constructed exactly once, on the tick that sets the real pyramid, after  *)
(* the reals are set and before any generator call of that tick, and is     *)
(* not extended or changed afterwards: after every tick                     *)
(* len(fixed_noises) = len(reals), element 0 is the random noise of scale 0 *)
(* and every later element the zero tensor of its scale.                    *)
(***************************************************************************)
FirstIndex(e, op) ==
    IF Count(e, op) = 0 THEN Len(e) + 1
    ELSE CHOOSE k \in 1..Len(e) :
             /\ e[k].op = op
             /\ \A j \in 1..(k - 1) : e[j].op # op

C17_DiscriminatorFrozenInGeneratorRounds ==
    Ticked =>
        /\ \A k \in 1..Len(last.events) :
               LET ev == last.events[k]
               IN  /\ ev.op \in {"gen_round", "gen_update_params"} => ~ev.grad
                   /\ ev.op \in {"disc_round", "disc_update_params"} => ev.grad
        /\ last.err = "none" => disc_requires_grad

C17_Witness ==
    /\ Ticked /\ last.err = "none"
    /\ last.i > 0 /\ discriminator_steps = 1
    /\ Count(last.events, "gen_round") = 2
    /\ Count(last.events, "disc_round") = 1
    /\ disc_requires_grad

(***************************************************************************)
(* C18.  Original statement: the shadow step runs after every completed     *)
(* generator round: with k = generator_steps * gen_accum generator rounds   *)
(* in a tick and EMA enabled, the shadow model is synchronized or blended   *)
(* k times in that tick.                                                    *)
(***************************************************************************)
C18_ShadowStepPerGeneratorRound ==
    (Ticked /\ last.err = "none" /\ with_ema_gen)
        => EmaWrites(last.events) = Count(last.events, "gen_round")

(***************************************************************************)
(* C18, amended.  With EMA enabled, a tick in which the k generator rounds  *)
(* ran performs the shadow step once, after the last of the k rounds (and   *)
(* after the discriminator is unfrozen), whatever k is; a tick without      *)
(* generator rounds performs none.                                          *)
(***************************************************************************)
LastIndex(e, op) ==
    IF Count(e, op) = 0 THEN 0
    ELSE CHOOSE k \in 1..Len(e) :
             /\ e[k].op = op
             /\ \A j \in (k + 1)..Len(e) : e[j].op # op

C18_ShadowStepOncePerTick ==
    (Ticked /\ last.err = "none" /\ with_ema_gen) =>
        LET e == last.events
            k == Count(e, "gen_round")
            first == IF Count(e, "ema_update_parameters") = 1
                     THEN FirstIndex(e, "ema_update_parameters")
                     ELSE FirstIndex(e, "ema_sync_parameters")
        IN  /\ k \in {0, generator_steps * GenAccum(optim_wrapper, curr_stage)}
            /\ EmaWrites(e) = (IF k > 0 THEN 1 ELSE 0)
            /\ k > 0 => /\ LastIndex(e, "gen_round") < first
                        /\ e[first].grad

C18_Witness ==
    /\ Ticked /\ last.err = "none" /\ with_ema_gen
    /\ Count(last.events, "gen_round") = 2
    /\ EmaWrites(last.events) = 1
    /\ last.events[Len(last.events)].op = "ema_update_parameters"

(***************************************************************************)
(* C19.  The inference state machine is one-shot: once loaded_test_pkl is   *)
(* true no call of test_step, forward or train_step sets it back to false;  *)
(* the snapshot is read by test_step only, only while the flag is false,    *)
(* and the read sets the flag, so it is read at most once; no call writes   *)
(* the snapshot or changes its configured path.                             *)
(***************************************************************************)
C19_LoadIsOneShot ==
    [][/\ loaded_test_pkl => loaded_test_pkl'
       /\ Count(last'.events, "read_pkl") <= 1
       /\ Count(last'.events, "read_pkl") = 1
              => /\ last'.op = "test_step"
                 /\ ~loaded_test_pkl
                 /\ loaded_test_pkl'
       /\ Count(last'.events, "write_pkl") = 0
       /\ pkl_data' = pkl_data]_vars

C19_Witness ==
    /\ Ticked /\ last.err = "none"
    /\ loaded_test_pkl
    /\ Len(fixed_noises) > Len(reals)

(***************************************************************************)
(* C20.  Every update round of a tick steps only the optimizers keyed       *)
(* generator_<s> and discriminator_<s> where s is the stage in force after  *)
(* that tick's transition check; no round steps an optimizer of another     *)
(* stage, and a tick that returns has stepped discriminator_<s> once.       *)
(***************************************************************************)
C20_RoundsUseCurrentStageOptimizers ==
    Ticked =>
        LET e == last.events
        IN  /\ \A k \in 1..Len(e) :
                   e[k].op \in {"disc_update_params", "gen_update_params"}
                       => e[k].stage = curr_stage
            /\ Count(e, "disc_update_params") = Count(e, "disc_round")
            /\ Count(e, "gen_update_params") = Count(e, "gen_round")
            /\ last.err = "none"
                   => CountAt(e, "disc_update_params", curr_stage) = 1

C20_Witness ==
    /\ Ticked /\ last.err = "none"
    /\ curr_stage = 1
    /\ CountAt(last.events, "disc_update_params", 1) = 1
    /\ CountAt(last.events, "gen_update_params", 1) = 2

(***************************************************************************)
(* C21.  With a learning-rate schedule configured, every stage transition   *)
(* creates new generator and discriminator schedulers bound to the new      *)
(* stage's optimizers, with step count zero whatever the count of the       *)
(* previous stage's schedulers was; a tick steps both schedulers, once,     *)
(* iff (i+1) mod discriminator_steps = 0, and the schedulers it steps are   *)
(* those of the stage in force.  Without a schedule no scheduler is ever    *)
(* created or stepped.                                                      *)
(***************************************************************************)
C21_SchedulersPerStage ==
    [][last'.op = "train_step" =>
         LET e == last'.events
             boundary == last'.i % (iters_per_scale * discriminator_steps) = 0
             steps == IF (last'.i + 1) % discriminator_steps = 0 THEN 1 ELSE 0
         IN  /\ lr_scheduler_args =>
                  /\ Count(e, "new_schedulers") <= 1
                  /\ Count(e, "new_schedulers") = 1 => boundary
                  /\ last'.err = "none" =>
                        /\ Count(e, "new_schedulers") = (IF boundary THEN 1 ELSE 0)
                        /\ Count(e, "gen_scheduler_step") = steps
                        /\ Count(e, "disc_scheduler_step") = steps
                        /\ gen_scheduler'.stage = curr_stage'
                        /\ disc_scheduler'.stage = curr_stage'
                        /\ gen_scheduler'.last_epoch =
                               (IF boundary THEN 0 ELSE gen_scheduler.last_epoch)
                                   + steps
                        /\ disc_scheduler'.last_epoch =
                               (IF boundary THEN 0 ELSE disc_scheduler.last_epoch)
                                   + steps
             /\ ~lr_scheduler_args =>
                  /\ Count(e, "new_schedulers") = 0
                  /\ Count(e, "gen_scheduler_step") = 0
                  /\ Count(e, "disc_scheduler_step") = 0
                  /\ gen_scheduler' = NoScheduler
                  /\ disc_scheduler' = NoScheduler]_vars

C21_Witness ==
    /\ Ticked /\ last.err = "none" /\ lr_scheduler_args
    /\ iters_per_scale = 2 /\ discriminator_steps = 1
    /\ curr_stage = 1
    /\ IsStageBoundary(last.i)
    /\ gen_scheduler = [stage |-> 1, last_epoch |-> 1]

(***************************************************************************)
(* C22.  For the consecutive ticks of a training run, every completed       *)
(* stage window of iters_per_scale * discriminator_steps ticks contains     *)
(* exactly that many discriminator rounds, exactly iters_per_scale ticks    *)
(* with generator rounds (iters_per_scale * generator_steps rounds), and    *)
(* exactly iters_per_scale scheduler steps when a schedule is configured    *)
(* (none otherwise), all of them on the stage of that window.               *)
(***************************************************************************)
C22_WindowTally ==
    (/\ Ticked /\ last.err = "none"
     /\ (last.i + 1) % (iters_per_scale * discriminator_steps) = 0)
        => /\ window.ticks = iters_per_scale * discriminator_steps
           /\ window.disc_rounds = iters_per_scale * discriminator_steps
           /\ window.gen_ticks = iters_per_scale
           /\ window.gen_rounds = iters_per_scale * generator_steps
           /\ window.scheduler_steps =
                  (IF lr_scheduler_args THEN iters_per_scale ELSE 0)
           /\ window.stages = {curr_stage}
           /\ curr_stage = last.i \div (iters_per_scale * discriminator_steps)
           /\ lr_scheduler_args =>
                  gen_scheduler = [stage |-> curr_stage,
                                   last_epoch |-> iters_per_scale]

C22_Witness ==
    /\ Ticked /\ last.err = "none" /\ lr_scheduler_args
    /\ iters_per_scale = 2 /\ discriminator_steps = 2 /\ generator_steps = 2
    /\ curr_stage = 1
    /\ window.ticks = 4
    /\ window.gen_rounds = 4
    /\ window.scheduler_steps = 2

(***************************************************************************)
(* C23.  For the consecutive ticks of a training run (accumulation counts   *)
(* 1), every tick with (i+1) mod (iters_per_scale * discriminator_steps)    *)
(* = 0, on which the noise-weight calibration fires, is a tick with         *)
(* generator rounds, so the weight is appended after the last generator     *)
(* round of that stage, and the tick that follows is a stage transition.    *)
(***************************************************************************)
C23_CalibrationAfterLastGeneratorRound ==
    [][last'.op = "train_step" =>
         LET e == last'.events
             w == iters_per_scale * discriminator_steps
         IN  /\ ((last'.i + 1) % w = 0 /\ last'.err = "none")
                    => /\ (last'.i + 1) % discriminator_steps = 0
                       /\ Count(e, "gen_round") = generator_steps
                       /\ CountAt(e, "gen_round", curr_stage') = generator_steps
                       /\ Count(e, "append_noise_weight") = 1
                              => LastIndex(e, "gen_round")
                                     < FirstIndex(e, "append_noise_weight")
             /\ (last.op = "train_step" /\ (last.i + 1) % w = 0)
                    => /\ last'.i = last.i + 1
                       /\ curr_stage' = curr_stage + 1
                       /\ Count(e, "gen_load_prev_weight") = 1]_vars

C23_Witness ==
    /\ Ticked /\ last.err = "none"
    /\ discriminator_steps = 2 /\ iters_per_scale = 2
    /\ last.i = 4
    /\ curr_stage = 1
    /\ Len(noise_weights) = 2
    /\ gen_params # 0

(***************************************************************************)
(* C24.  For the consecutive ticks of a training run, every update round    *)
(* that runs at a stage s has 0 <= s < len(reals), len(fixed_noises) >=     *)
(* s + 1 and len(noise_weights) >= s + 1; a calibration at stage s has      *)
(* s + 1 < len(reals); and a tick raises IndexError only when its stage     *)
(* lies beyond the real pyramid, where no round completes.                  *)
(***************************************************************************)
C24_IndicesInBounds ==
    Ticked =>
        LET e == last.events
            weights == Len(noise_weights) - Count(e, "append_noise_weight")
        IN  /\ \A k \in 1..Len(e) :
                   e[k].op \in {"disc_round", "gen_round", "disc_update_params",
                                "gen_update_params"}
                       => /\ 0 <= e[k].stage /\ e[k].stage < Len(reals)
                          /\ e[k].stage = curr_stage
                          /\ Len(fixed_noises) >= curr_stage + 1
                          /\ weights >= curr_stage + 1
            /\ Count(e, "append_noise_weight") > 0
                   => /\ 0 <= curr_stage /\ curr_stage + 1 < Len(reals)
                      /\ Len(fixed_noises) >= curr_stage + 1
                      /\ weights >= curr_stage + 1
            /\ last.err = "IndexError"
                   => /\ curr_stage >= Len(reals)
                      /\ Len(Rounds(e)) = 0

C24_Witness ==
    /\ Ticked /\ last.err = "none"
    /\ curr_stage = 1 /\ Len(reals) = 2
    /\ (last.i + 1) % Window = 0
    /\ Count(last.events, "gen_round") > 0
    /\ Count(last.events, "append_noise_weight") = 0
    /\ Len(noise_weights) = 2 /\ Len(fixed_noises) = 2

(***************************************************************************)
(* C25.  A forward call that returns, in any sample mode ('orig', 'ema',    *)
(* 'ema/orig'), with or without a curr_scale override, leaves curr_stage,   *)
(* noise_weights, reals, the loaded flag and fixed_noises unchanged; every  *)
(* generator it invokes (one, or two for 'ema/orig') is passed the          *)
(* override as its scale, and curr_stage when there is none.                *)
(***************************************************************************)
C25_ForwardLeavesStateAlone ==
    [][(last'.op = "forward" /\ last'.err = "none") =>
         LET e == last'.events
             m == IF last'.inputs.sample_model = "None"
                  THEN (IF with_ema_gen THEN "ema" ELSE "orig")
                  ELSE last'.inputs.sample_model
             scale == IF last'.inputs.curr_scale = None THEN curr_stage
                      ELSE last'.inputs.curr_scale
         IN  /\ UNCHANGED <<curr_stage, noise_weights, reals, loaded_test_pkl,
                            fixed_noises, gen_params, ema_params>>
             /\ m \in {"orig", "ema", "ema/orig"}
             /\ Len(e) = (IF m = "ema/orig" THEN 2 ELSE 1)
             /\ \A k \in 1..Len(e) : e[k].stage = scale
             /\ Count(e, "generator_orig") = (IF m = "ema" THEN 0 ELSE 1)
             /\ Count(e, "generator_ema") = (IF m = "orig" THEN 0 ELSE 1)]_vars

C25_Witness ==
    /\ last.op = "forward" /\ last.err = "none"
    /\ last.inputs.sample_model = "ema/orig"
    /\ last.inputs.curr_scale = 0
    /\ curr_stage = 1
    /\ GeneratorCalls(last.events) = 2
    /\ Len(fixed_noises) = 2

====
